---------------------------- MODULE Spec2Model ----------------------------
(***************************************************************************)
(* A model of ml_metrics/_src/chainables/courier_server.py:                *)
(*   HeartbeatRegistry, CourierServer (build / start / run_until_shutdown  *)
(*   / notify_shutdown / the bound RPC handlers) and                       *)
(*   PrefetchedCourierServer (init_generator / next_batch_from_generator). *)
(* iter_utils.IteratorQueue is not part of the sources at hand; the queue  *)
(* operators below (IQ...) follow its description in the design document.  *)
(***************************************************************************)
EXTENDS Integers, Sequences, FiniteSets, TLC

(***************************************************************************)
(* Bounds of the model.                                                    *)
(***************************************************************************)
MaxTime == 4
AutoShutdownSecs == 1
MaxEndpoints == 2
MaxRuns == 2
MaxInits == 2
MaxItems == 2
MaxCalls == 2
MaxDuration == 2
MaxParallelism == 1
MaxTimeout == 1
MaxBatches == 2
MaxColumns == 2
MaxBatchSize == 3
PrefetchSize == 1

Handlers == {"h1", "h2"}
Callers == {"c1", "c2"}
ServerNames == {"None", "srv", ""}
Addrs == {"a", "b"}
NoAddr == ""
Times == 0..MaxTime
None == 0

VARIABLES
  now,                \* time.time()
  entry_mode,         \* how callers drive the lifecycle: "start" | "direct"
  server,             \* self._server: None or an endpoint id
  eps_made,           \* number of courier.Server objects constructed so far
  started_eps,        \* endpoints with has_started (Start() called, not Stop())
  thread,             \* self._thread: None or the id of the thread created
  lpc,                \* position of the thread running run_until_shutdown
  runs,               \* number of run_until_shutdown invocations so far
  shutdown_requested, \* self._shutdown_requested
  shutdown_lock,      \* owner of self._shutdown_lock: "free" | "loop"
  last_heartbeat,     \* self._last_heartbeat
  clients,            \* self._heartbeats._clients : address -> time
  reg_op,             \* the last direct HeartbeatRegistry call and its outcome
  shutdown_callback,  \* self._shutdown_callback is set
  cb_calls,           \* number of invocations of the shutdown callback
  hpc,                \* position of each RPC handler thread
  hloc,               \* locals of each RPC handler thread
  rpc_error,          \* the error the last failed generator RPC raised
  mm_call,            \* the last maybe_make RPC and its outcome
  generator,          \* self._generator: None or a queue id
  enqueue_thread,     \* self._enqueue_thread: None or a thread id
  queues,             \* the IteratorQueue objects created so far
  thrs,               \* the producer Thread objects created so far
  inits,              \* init_generator calls that got an iterable so far
  delivered,          \* per queue, what the fetch responses returned so far
  server_name,        \* self.server_name: "None", a name, or ""
  threads_made,       \* number of lifecycle Thread objects created so far
  ep_starts,          \* per endpoint, the number of Start() calls on it
  binds,              \* per endpoint, the number of set_up() calls for it
  build_op,           \* the last direct build_server() call and its outcome
  states_lock,        \* owner of self._states_lock: "free" or a caller
  spc,                \* position of each caller inside start()
  sloc,               \* the endpoint each caller got from build_server()
  sret,               \* the handle start() last returned to each caller
  eq_call,            \* the last comparison of two handles and its result
  wcalls,             \* the State of every call a Worker has issued
  ncalls,             \* how many calls have been issued
  pending_calls,      \* per Worker, its set of in-flight calls
  call_timeout,       \* per Worker, the timeout set_timeout() left (0: none)
  rb                  \* the rebatching in progress: input left, buffer, output

\* what the endpoints and the lifecycle thread were made of
epVars == <<threads_made, ep_starts, binds>>
\* state of callers that no server-side step changes
workerVars == <<wcalls, ncalls, pending_calls, call_timeout>>
extVars == <<eq_call, workerVars, rb>>
auxVars == <<server_name, build_op, states_lock, spc, sloc, sret, extVars>>
lifeVars == <<entry_mode, auxVars, epVars, server, eps_made, started_eps,
              thread, lpc, runs, shutdown_requested, shutdown_lock,
              shutdown_callback, cb_calls>>
regVars == <<clients, reg_op>>
rpcVars == <<hpc, hloc, rpc_error, mm_call>>
genVars == <<generator, enqueue_thread, queues, thrs, inits, delivered>>
vars == <<now, lifeVars, last_heartbeat, regVars, rpcVars, genVars>>

NoSrc == [id |-> 0, len |-> 0, iterable |-> FALSE]
NoLoc == [addr |-> NoAddr, alive |-> FALSE, src |-> NoSrc, q |-> None,
          jt |-> None, batch |-> 0]
NoRegOp == [op |-> "none", addr |-> NoAddr, time |-> 0, raised |-> FALSE,
            seq |-> 0]
NoValue == [kind |-> "none", of |-> "none", picklable |-> TRUE]
NoBuildOp == [ret |-> 0, raised |-> FALSE, seq |-> 0]
\* the pool's workers, in address order
WorkerAddrs == <<"a", "b">>
Workers == 1..Len(WorkerAddrs)
CallIds == 1..MaxCalls
NoWCall == [worker |-> 0, status |-> "none", duration |-> 0, timeout |-> 0,
            elapsed |-> 0]
NoRebatch == [pc |-> "idle", src |-> <<>>, in |-> <<>>, size |-> 0,
              ncols |-> 0, buf |-> <<>>, out |-> <<>>]
NoHandle == [cls |-> "none", address |-> NoAddr, auto_shutdown_secs |-> 0,
             prefetch_size |-> 0]
NoEq == [done |-> FALSE, x |-> NoHandle, y |-> NoHandle, result |-> FALSE]
NoCall == [lazy |-> "none", return_exception |-> FALSE, status |-> "none",
           payload |-> NoValue]

(***************************************************************************)
(* HeartbeatRegistry: a dict address -> time.                              *)
(***************************************************************************)
Max(a, b) == IF a >= b THEN a ELSE b

RegistryGet(c, address) == IF address \in DOMAIN c THEN c[address] ELSE -1

RegistryRegister(c, address, time_) ==
  [a \in DOMAIN c \cup {address} |-> IF a = address THEN time_ ELSE c[a]]

RegistryUnregister(c, address) ==
  [a \in DOMAIN c \ {address} |-> c[a]]

\* update(): the entry of a known address becomes the larger time; the
\* ValueError is raised on every path, the one through the assignment too.
RegistryUpdateRaises(c, address) == TRUE

\* variant: update() stores the new time without taking the maximum
RegistryUpdateOverwrites(c, address, time_) ==
  [c |-> IF address \in DOMAIN c
           THEN [c EXCEPT ![address] = time_]
           ELSE c,
   raised |-> RegistryUpdateRaises(c, address)]

RegistryUpdate(c, address, time_) ==
  [c |-> IF address \in DOMAIN c
           THEN [c EXCEPT ![address] = Max(c[address], time_)]
           ELSE c,
   raised |-> RegistryUpdateRaises(c, address)]

\* client_heartbeat(): get(...) or 0.0
ClientHeartbeat(address) ==
  IF RegistryGet(clients, address) = -1 THEN 0 ELSE RegistryGet(clients, address)

(***************************************************************************)
(* Server state.                                                           *)
(***************************************************************************)
\* has_started: a built endpoint that has started, and a lifecycle thread.
HasStarted ==
  /\ server # None
  /\ server \in started_eps
  /\ thread # None

\* The endpoint accepts RPCs.
Serving == server # None /\ server \in started_eps

\* The thread running run_until_shutdown is between entry and return.
LoopPcs == {"acquire", "check", "check_age", "prewait", "waiting", "woken"}
TeardownPcs == {"td_check", "td_callback", "td_stop", "td_clear"}
InLoop == lpc \in LoopPcs

\* nothing has been compared
ExtInit ==
  /\ eq_call = NoEq
  /\ wcalls = [id \in CallIds |-> NoWCall]
  /\ ncalls = 0
  /\ pending_calls = [w \in Workers |-> {}]
  /\ call_timeout = [w \in Workers |-> 0]
  /\ rb = NoRebatch

Init ==
  /\ now = 1
  /\ entry_mode \in {"start", "direct"}
  /\ server = 1            \* __init__ ends with build_server()
  /\ eps_made = 1
  /\ started_eps = {}
  /\ thread = None
  /\ lpc = "none"
  /\ runs = 0
  /\ shutdown_requested = FALSE
  /\ shutdown_lock = "free"
  /\ last_heartbeat = 0
  /\ clients = <<>>
  /\ reg_op = NoRegOp
  /\ shutdown_callback = FALSE
  /\ cb_calls = 0
  /\ hpc = [h \in Handlers |-> "idle"]
  /\ hloc = [h \in Handlers |-> NoLoc]
  /\ rpc_error = "none"
  /\ mm_call = NoCall
  /\ generator = None
  /\ enqueue_thread = None
  /\ queues = <<>>
  /\ thrs = <<>>
  /\ inits = 0
  /\ delivered = <<>>
  /\ server_name = "None"
  /\ threads_made = 0
  /\ ep_starts = <<0>>
  /\ binds = <<1>>
  /\ build_op = NoBuildOp
  /\ states_lock = "free"
  /\ spc = [c \in Callers |-> "idle"]
  /\ sloc = [c \in Callers |-> None]
  /\ sret = [c \in Callers |-> None]
  /\ ExtInit

Tick ==
  /\ now < MaxTime
  /\ now' = now + 1
  /\ UNCHANGED <<lifeVars, last_heartbeat, regVars, rpcVars, genVars>>


(***************************************************************************)
(* build_server(): a new endpoint only when the slot is empty; creating    *)
(* one clears shutdown-requested.                                          *)
(***************************************************************************)
\* assert self.server_name != ''
NameIsLegal == server_name # ""

\* variant: a new endpoint on every call
SlotAlwaysEmpty == TRUE

\* if self._server is None:
SlotIsEmpty == server = None

CanBuild == NameIsLegal /\ (~SlotIsEmpty \/ eps_made < MaxEndpoints)
BuiltServer == IF SlotIsEmpty THEN eps_made + 1 ELSE server
BuiltMade == IF SlotIsEmpty THEN eps_made + 1 ELSE eps_made
BuiltRequested == IF SlotIsEmpty THEN FALSE ELSE shutdown_requested
\* self.set_up() binds the methods of the new endpoint
BuiltBinds == IF SlotIsEmpty THEN Append(binds, 1) ELSE binds
BuiltStarts == IF SlotIsEmpty THEN Append(ep_starts, 0) ELSE ep_starts

\* if not courier_server.has_started: courier_server.Start()
EndpointStarts(starts, e) ==
  IF e \in started_eps THEN starts ELSE [starts EXCEPT ![e] = @ + 1]

\* build_server() called on its own: the assert, then the endpoint of the
\* slot, a new one when the slot is empty.
BuildServer ==
  /\ ~NameIsLegal \/ CanBuild
  /\ IF NameIsLegal
       THEN /\ server' = BuiltServer
            /\ eps_made' = BuiltMade
            /\ shutdown_requested' = BuiltRequested
            /\ binds' = BuiltBinds
            /\ ep_starts' = BuiltStarts
            /\ build_op' = [ret |-> BuiltServer, raised |-> FALSE,
                            seq |-> 1 - build_op.seq]
       ELSE /\ build_op' = [ret |-> None, raised |-> TRUE,
                            seq |-> 1 - build_op.seq]
            /\ UNCHANGED <<server, eps_made, shutdown_requested, binds,
                           ep_starts>>
  /\ UNCHANGED <<now, entry_mode, server_name, states_lock, spc, sloc, sret,
                 threads_made, started_eps, thread, lpc, runs, shutdown_lock,
                 shutdown_callback, cb_calls, last_heartbeat, regVars, rpcVars,
                 genVars, extVars>>

\* start(): build, Start() the endpoint if needed, launch the lifecycle
\* thread if self._thread is unset.  The body runs under _states_lock, and
\* here it is one step; StartCall .. StartReturn below are its statements.
Start ==
  /\ entry_mode = "start"
  /\ CanBuild
  /\ server' = BuiltServer
  /\ eps_made' = BuiltMade
  /\ shutdown_requested' = BuiltRequested
  /\ started_eps' = started_eps \cup {BuiltServer}
  /\ binds' = BuiltBinds
  /\ ep_starts' = EndpointStarts(BuiltStarts, BuiltServer)
  /\ IF thread = None
       THEN /\ thread' = threads_made + 1
            /\ threads_made' = threads_made + 1
            /\ lpc' = "entry"
       ELSE UNCHANGED <<thread, threads_made, lpc>>
  /\ UNCHANGED <<now, entry_mode, auxVars, runs, shutdown_lock, shutdown_callback,
                 cb_calls, last_heartbeat, regVars, rpcVars, genVars>>

(***************************************************************************)
(* start(), statement by statement, for callers on threads of their own.   *)
(***************************************************************************)
\* what start() leaves alone in every statement
startFrame == <<now, entry_mode, server_name, build_op, runs, shutdown_lock,
                shutdown_callback, cb_calls, last_heartbeat, regVars, rpcVars,
                genVars, extVars>>

\* variant: the body of start() is entered without the lock
StatesLockIgnored == TRUE

StatesLockFree == states_lock = "free"

\* with self._states_lock:
StartCall(c) ==
  /\ entry_mode = "start"
  /\ spc[c] = "idle"
  /\ StatesLockFree
  /\ states_lock' = c
  /\ spc' = [spc EXCEPT ![c] = "st_build"]
  /\ UNCHANGED <<startFrame, epVars, server, eps_made, started_eps, thread,
                 lpc, shutdown_requested, sloc, sret>>

\* courier_server = self.build_server()
StartBuild(c) ==
  /\ spc[c] = "st_build"
  /\ CanBuild
  /\ server' = BuiltServer
  /\ eps_made' = BuiltMade
  /\ shutdown_requested' = BuiltRequested
  /\ binds' = BuiltBinds
  /\ ep_starts' = BuiltStarts
  /\ sloc' = [sloc EXCEPT ![c] = BuiltServer]
  /\ spc' = [spc EXCEPT ![c] = "st_ep_check"]
  /\ UNCHANGED <<startFrame, threads_made, started_eps, thread, lpc,
                 states_lock, sret>>

\* if not courier_server.has_started:
StartEndpointCheck(c) ==
  /\ spc[c] = "st_ep_check"
  /\ spc' = [spc EXCEPT ![c] = IF sloc[c] \in started_eps
                                 THEN "st_th_check" ELSE "st_ep_start"]
  /\ UNCHANGED <<startFrame, epVars, server, eps_made, started_eps, thread,
                 lpc, shutdown_requested, states_lock, sloc, sret>>

\* courier_server.Start()
StartEndpoint(c) ==
  /\ spc[c] = "st_ep_start"
  /\ started_eps' = started_eps \cup {sloc[c]}
  /\ ep_starts' = [ep_starts EXCEPT ![sloc[c]] = @ + 1]
  /\ spc' = [spc EXCEPT ![c] = "st_th_check"]
  /\ UNCHANGED <<startFrame, threads_made, binds, server, eps_made, thread,
                 lpc, shutdown_requested, states_lock, sloc, sret>>

\* if not self._thread:
StartThreadCheck(c) ==
  /\ spc[c] = "st_th_check"
  /\ spc' = [spc EXCEPT ![c] = IF thread = None
                                 THEN "st_th_make" ELSE "st_return"]
  /\ UNCHANGED <<startFrame, epVars, server, eps_made, started_eps, thread,
                 lpc, shutdown_requested, states_lock, sloc, sret>>

\* self._thread = threading.Thread(target=self.run_until_shutdown, ...)
\* self._thread.start()
StartThread(c) ==
  /\ spc[c] = "st_th_make"
  /\ thread' = threads_made + 1
  /\ threads_made' = threads_made + 1
  /\ lpc' = "entry"
  /\ spc' = [spc EXCEPT ![c] = "st_return"]
  /\ UNCHANGED <<startFrame, ep_starts, binds, server, eps_made, started_eps,
                 shutdown_requested, states_lock, sloc, sret>>

\* return self._thread, leaving the with block
StartReturn(c) ==
  /\ spc[c] = "st_return"
  /\ sret' = [sret EXCEPT ![c] = thread]
  /\ sloc' = [sloc EXCEPT ![c] = None]
  /\ states_lock' = IF states_lock = c THEN "free" ELSE states_lock
  /\ spc' = [spc EXCEPT ![c] = "idle"]
  /\ UNCHANGED <<startFrame, epVars, server, eps_made, started_eps, thread,
                 lpc, shutdown_requested>>

StartStep(c) ==
  \/ StartCall(c)
  \/ StartBuild(c)
  \/ StartEndpointCheck(c)
  \/ StartEndpoint(c)
  \/ StartThreadCheck(c)
  \/ StartThread(c)
  \/ StartReturn(c)

\* A caller's own thread runs run_until_shutdown (as the tests do).
RunDirect ==
  /\ entry_mode = "direct"
  /\ lpc \in {"none", "done"}
  /\ runs < MaxRuns
  /\ lpc' = "entry"
  /\ UNCHANGED <<now, entry_mode, auxVars, epVars, server, eps_made, started_eps, thread, runs,
                 shutdown_requested, shutdown_lock, shutdown_callback, cb_calls,
                 last_heartbeat, regVars, rpcVars, genVars>>

\* set_shutdown_callback()
SetShutdownCallback ==
  /\ shutdown_callback' = TRUE
  /\ UNCHANGED <<now, entry_mode, auxVars, epVars, server, eps_made, started_eps, thread, lpc,
                 runs, shutdown_requested, shutdown_lock, cb_calls,
                 last_heartbeat, regVars, rpcVars, genVars>>

(***************************************************************************)
(* run_until_shutdown()                                                    *)
(***************************************************************************)
\* build_server(); Start() if not started; _last_heartbeat = time.time()
LoopEnter ==
  /\ lpc = "entry"
  /\ CanBuild
  /\ server' = BuiltServer
  /\ eps_made' = BuiltMade
  /\ shutdown_requested' = BuiltRequested
  /\ started_eps' = started_eps \cup {BuiltServer}
  /\ binds' = BuiltBinds
  /\ ep_starts' = EndpointStarts(BuiltStarts, BuiltServer)
  /\ last_heartbeat' = now
  /\ runs' = runs + 1
  /\ lpc' = "acquire"
  /\ UNCHANGED <<now, entry_mode, auxVars, threads_made, thread, shutdown_lock, shutdown_callback,
                 cb_calls, regVars, rpcVars, genVars>>

\* with self._shutdown_lock:
LoopAcquire ==
  /\ lpc = "acquire"
  /\ shutdown_lock = "free"
  /\ shutdown_lock' = "loop"
  /\ lpc' = "check"
  /\ UNCHANGED <<now, entry_mode, auxVars, epVars, server, eps_made, started_eps, thread, runs,
                 shutdown_requested, shutdown_callback, cb_calls,
                 last_heartbeat, regVars, rpcVars, genVars>>

\* while not self._shutdown_requested:
LoopCheckFlag ==
  /\ lpc = "check"
  /\ IF shutdown_requested
       THEN lpc' = "td_check" /\ shutdown_lock' = "free"
       ELSE lpc' = "check_age" /\ UNCHANGED shutdown_lock
  /\ UNCHANGED <<now, entry_mode, auxVars, epVars, server, eps_made, started_eps, thread, runs,
                 shutdown_requested, shutdown_callback, cb_calls,
                 last_heartbeat, regVars, rpcVars, genVars>>

\* if time.time() - self._last_heartbeat > self.auto_shutdown_secs
\* variant: the operands of the age are swapped
HeartbeatExpiredSwapped == last_heartbeat - now > AutoShutdownSecs

HeartbeatExpired == now - last_heartbeat > AutoShutdownSecs

LoopCheckAge ==
  /\ lpc = "check_age"
  /\ IF HeartbeatExpired
       THEN /\ shutdown_requested' = TRUE
            /\ lpc' = "td_check"
            /\ shutdown_lock' = "free"
       ELSE /\ lpc' = "prewait"
            /\ UNCHANGED <<shutdown_requested, shutdown_lock>>
  /\ UNCHANGED <<now, entry_mode, auxVars, epVars, server, eps_made, started_eps, thread, runs,
                 shutdown_callback, cb_calls, last_heartbeat, regVars, rpcVars, genVars>>

\* self._shutdown_lock.wait(_HRTBT_INTERVAL_SECS): release the lock and block
LoopWait ==
  /\ lpc = "prewait"
  /\ shutdown_lock' = "free"
  /\ lpc' = "waiting"
  /\ UNCHANGED <<now, entry_mode, auxVars, epVars, server, eps_made, started_eps, thread, runs,
                 shutdown_requested, shutdown_callback, cb_calls,
                 last_heartbeat, regVars, rpcVars, genVars>>

\* the wait's timeout elapses (the poll interval; any clock value here)
TimeoutWake ==
  /\ lpc = "waiting"
  /\ lpc' = "woken"
  /\ UNCHANGED <<now, entry_mode, auxVars, epVars, server, eps_made, started_eps, thread, runs,
                 shutdown_requested, shutdown_lock, shutdown_callback, cb_calls,
                 last_heartbeat, regVars, rpcVars, genVars>>

\* wait() returns once it holds the lock again; back to the while test
LoopReacquire ==
  /\ lpc = "woken"
  /\ shutdown_lock = "free"
  /\ shutdown_lock' = "loop"
  /\ lpc' = "check"
  /\ UNCHANGED <<now, entry_mode, auxVars, epVars, server, eps_made, started_eps, thread, runs,
                 shutdown_requested, shutdown_callback, cb_calls,
                 last_heartbeat, regVars, rpcVars, genVars>>

(***************************************************************************)
(* shutdown_server(), called when the loop is left                         *)
(***************************************************************************)
\* if self.has_started:
TdCheck ==
  /\ lpc = "td_check"
  /\ lpc' = IF HasStarted THEN "td_callback" ELSE "done"
  /\ UNCHANGED <<now, entry_mode, auxVars, epVars, server, eps_made, started_eps, thread, runs,
                 shutdown_requested, shutdown_lock, shutdown_callback, cb_calls,
                 last_heartbeat, regVars, rpcVars, genVars>>

\* variant: the callback is taken for unset
CallbackNeverSet == FALSE

\* self._shutdown_callback is not None
CallbackIsSet == shutdown_callback

\* if self._shutdown_callback is not None: self._shutdown_callback()
TdCallback ==
  /\ lpc = "td_callback"
  /\ cb_calls' = IF CallbackIsSet THEN cb_calls + 1 ELSE cb_calls
  /\ lpc' = "td_stop"
  /\ UNCHANGED <<now, entry_mode, auxVars, epVars, server, eps_made, started_eps, thread, runs,
                 shutdown_requested, shutdown_lock, shutdown_callback,
                 last_heartbeat, regVars, rpcVars, genVars>>

\* self._server.Stop()
TdStop ==
  /\ lpc = "td_stop"
  /\ started_eps' = started_eps \ {server}
  /\ lpc' = "td_clear"
  /\ UNCHANGED <<now, entry_mode, auxVars, epVars, server, eps_made, thread, runs,
                 shutdown_requested, shutdown_lock, shutdown_callback, cb_calls,
                 last_heartbeat, regVars, rpcVars, genVars>>

\* self._server = None
TdClear ==
  /\ lpc = "td_clear"
  /\ server' = None
  /\ lpc' = "done"
  /\ UNCHANGED <<now, entry_mode, auxVars, epVars, eps_made, started_eps, thread, runs,
                 shutdown_requested, shutdown_lock, shutdown_callback, cb_calls,
                 last_heartbeat, regVars, rpcVars, genVars>>

(***************************************************************************)
(* notify_shutdown(): under the condition's lock, set the flag and         *)
(* notify_all().  Reached from notify_shutdown(), stop() and the 'shutdown'*)
(* binding.                                                                *)
(***************************************************************************)
\* variant: the flag is set without taking the condition's lock
NotifyWithoutLock == TRUE

NotifyHoldsLock == shutdown_lock = "free"

\* notify_all(): every thread blocked in wait() is woken
NotifiedPc == IF lpc = "waiting" THEN "woken" ELSE lpc

DoNotifyShutdown ==
  /\ NotifyHoldsLock
  /\ shutdown_requested' = TRUE
  /\ lpc' = NotifiedPc
  /\ UNCHANGED <<now, entry_mode, auxVars, epVars, server, eps_made, started_eps, thread, runs,
                 shutdown_lock, shutdown_callback, cb_calls, last_heartbeat,
                 regVars, rpcVars, genVars>>

NotifyShutdown == DoNotifyShutdown

\* stop(): notify_shutdown(), then return self._thread
Stop ==
  /\ entry_mode = "start"
  /\ DoNotifyShutdown

\* the 'shutdown' binding is notify_shutdown itself
ShutdownRpc(h) ==
  /\ hpc[h] = "idle"
  /\ Serving
  /\ DoNotifyShutdown


(***************************************************************************)
(* The 'heartbeat' binding.                                                *)
(***************************************************************************)
\* The clock is bounded: a heartbeat arrives only while the clock can still
\* run past its expiry.
ClockHasRoom == now + AutoShutdownSecs < MaxTime

\* self._last_heartbeat = time.time(); if not sender_addr: return
HeartbeatRecv(h, sender_addr, is_alive) ==
  /\ hpc[h] = "idle"
  /\ Serving
  /\ ClockHasRoom
  /\ last_heartbeat' = now
  /\ IF sender_addr = NoAddr
       THEN UNCHANGED <<hpc, hloc>>
       ELSE /\ hpc' = [hpc EXCEPT ![h] = "hb_register"]
            /\ hloc' = [hloc EXCEPT ![h].addr = sender_addr,
                                    ![h].alive = is_alive]
  /\ UNCHANGED <<now, lifeVars, regVars, rpc_error, mm_call, genVars>>

\* with self._states_lock: register(sender_addr, self._last_heartbeat)
\*                         or unregister(sender_addr)
\* variant: is_alive is ignored: the address is registered either way
HeartbeatAlwaysRegisters(c, sender_addr, is_alive, time_) ==
  RegistryRegister(c, sender_addr, time_)

HeartbeatRegistry(c, sender_addr, is_alive, time_) ==
  IF is_alive
    THEN RegistryRegister(c, sender_addr, time_)
    ELSE RegistryUnregister(c, sender_addr)

HeartbeatRegister(h) ==
  /\ hpc[h] = "hb_register"
  /\ states_lock = "free"
  /\ clients' = HeartbeatRegistry(clients, hloc[h].addr, hloc[h].alive,
                                  last_heartbeat)
  /\ hpc' = [hpc EXCEPT ![h] = "idle"]
  /\ hloc' = [hloc EXCEPT ![h] = NoLoc]
  /\ UNCHANGED <<now, lifeVars, last_heartbeat, reg_op, rpc_error, mm_call, genVars>>

(***************************************************************************)
(* Direct calls of the HeartbeatRegistry methods.                          *)
(***************************************************************************)
ApiRegister(address, time_) ==
  /\ clients' = RegistryRegister(clients, address, time_)
  /\ reg_op' = [op |-> "register", addr |-> address, time |-> time_,
                raised |-> FALSE, seq |-> 1 - reg_op.seq]
  /\ UNCHANGED <<now, lifeVars, last_heartbeat, rpcVars, genVars>>

ApiUpdate(address, time_) ==
  /\ clients' = RegistryUpdate(clients, address, time_).c
  /\ reg_op' = [op |-> "update", addr |-> address, time |-> time_,
                raised |-> RegistryUpdate(clients, address, time_).raised,
                seq |-> 1 - reg_op.seq]
  /\ UNCHANGED <<now, lifeVars, last_heartbeat, rpcVars, genVars>>

ApiUnregister(address) ==
  /\ clients' = RegistryUnregister(clients, address)
  /\ reg_op' = [op |-> "unregister", addr |-> address, time |-> 0,
                raised |-> FALSE, seq |-> 1 - reg_op.seq]
  /\ UNCHANGED <<now, lifeVars, last_heartbeat, rpcVars, genVars>>

(***************************************************************************)
(* The 'maybe_make' binding (pickled_maybe_make).                          *)
(***************************************************************************)
LazyKinds == {"value", "unpicklable_value", "raises", "raises_unpicklable",
              "undecodable"}

\* pickler.loads(maybe_lazy) succeeds
Decodable(lazy) == lazy # "undecodable"

\* lazy_fns.maybe_make(maybe_lazy): the value made, or the exception raised
Make(lazy) ==
  CASE lazy = "value" ->
         [raised |-> FALSE,
          value |-> [kind |-> "result", of |-> lazy, picklable |-> TRUE]]
    [] lazy = "unpicklable_value" ->
         [raised |-> FALSE,
          value |-> [kind |-> "result", of |-> lazy, picklable |-> FALSE]]
    [] lazy = "raises" ->
         [raised |-> TRUE,
          value |-> [kind |-> "exception", of |-> lazy, picklable |-> TRUE]]
    [] lazy = "raises_unpicklable" ->
         [raised |-> TRUE,
          value |-> [kind |-> "exception", of |-> lazy, picklable |-> FALSE]]
    [] OTHER ->
         [raised |-> TRUE,
          value |-> [kind |-> "decode_error", of |-> lazy, picklable |-> TRUE]]

\* pickler.dumps / pickler.loads
Dumps(value) == <<"pickle", value>>
Loads(blob) == blob[2]
PickleTypeError == [kind |-> "pickle_error", of |-> "dumps", picklable |-> TRUE]

\* try: return pickler.dumps(result) / except TypeError: raise
DumpResult(value) ==
  IF value.picklable
    THEN [status |-> "ok", payload |-> Dumps(value)]
    ELSE [status |-> "error", payload |-> PickleTypeError]

\* a binding that would ignore return_exception
ReturnsExceptionNever(return_exception) == FALSE

\* an execution failure with return_exception set becomes the result
ReturnsException(return_exception) == return_exception

PickledMaybeMake(maybe_lazy, return_exception) ==
  LET made == Make(maybe_lazy) IN
  IF made.raised
    THEN IF ~Decodable(maybe_lazy)
           THEN [status |-> "error", payload |-> made.value]
           ELSE IF ~ReturnsException(return_exception)
                  THEN [status |-> "error", payload |-> made.value]
                  ELSE DumpResult(made.value)
    ELSE DumpResult(made.value)

MaybeMakeRpc(h, maybe_lazy, return_exception) ==
  /\ hpc[h] = "idle"
  /\ Serving
  /\ mm_call' = [lazy |-> maybe_lazy, return_exception |-> return_exception,
                 status |-> PickledMaybeMake(maybe_lazy, return_exception).status,
                 payload |-> PickledMaybeMake(maybe_lazy, return_exception).payload]
  /\ UNCHANGED <<now, lifeVars, last_heartbeat, regVars, hpc, hloc, rpc_error,
                 genVars>>

(***************************************************************************)
(* iter_utils.IteratorQueue, as the design document describes it: a        *)
(* bounded FIFO of items, one terminal slot (the iterator's return value   *)
(* or its exception) and a stop-enqueue signal.                            *)
(***************************************************************************)
IQNew == [items |-> <<>>, terminal |-> "unset", stopped |-> FALSE]

\* exhausted: the terminal slot is set and every buffered item is drained
IQExhausted(q) == q.terminal # "unset" /\ q.items = <<>>

IQFull(q) == Len(q.items) >= PrefetchSize

IQStopEnqueue(q) == [q EXCEPT !.stopped = TRUE]

IQPut(q, item) == [q EXCEPT !.items = Append(@, item)]

\* variant: setting the terminal slot discards what is buffered
IQSetTerminalClears(q, kind) == [q EXCEPT !.terminal = kind, !.items = <<>>]

IQSetTerminal(q, kind) == [q EXCEPT !.terminal = kind]

\* flush(batch_size, block=True) returns once an item or the terminal
\* condition is there
IQCanFlush(q) == q.items # <<>> \/ q.terminal # "unset"

\* up to batch_size items, all that are buffered when batch_size is 0
IQFlushCount(q, batch_size) ==
  IF batch_size = 0 \/ batch_size > Len(q.items)
    THEN Len(q.items)
    ELSE batch_size

IQFlushed(q, batch_size) == SubSeq(q.items, 1, IQFlushCount(q, batch_size))

\* variant: flush leaves what it returned in the buffer
IQAfterFlushKeeps(q, batch_size) == q

IQAfterFlush(q, batch_size) ==
  [q EXCEPT !.items = SubSeq(@, IQFlushCount(q, batch_size) + 1, Len(@))]

\* the terminal sentinel of a stream: the exception, or StopIteration(*returned)
Sentinel(q) ==
  IF q.terminal = "exception" THEN <<0, "exception">> ELSE <<0, "StopIteration">>

IsSentinel(e) == e[1] = 0

(***************************************************************************)
(* The producer thread: IteratorQueue.enqueue_from_iterator(result) with   *)
(* ignore_error=True.                                                      *)
(***************************************************************************)
Threads == DOMAIN thrs

\* the stop-enqueue signal ends the producer, blocked on a full queue or not
ProducerStopped(t) ==
  /\ t \in Threads
  /\ thrs[t].state = "running"
  /\ queues[thrs[t].target].stopped
  /\ thrs' = [thrs EXCEPT ![t].state = "done"]
  /\ UNCHANGED <<now, lifeVars, last_heartbeat, regVars, rpcVars, generator,
                 enqueue_thread, queues, inits, delivered>>

\* the next item of the iterable is enqueued once the queue has room
ProducerPut(t) ==
  /\ t \in Threads
  /\ thrs[t].state = "running"
  /\ ~queues[thrs[t].target].stopped
  /\ thrs[t].pos < thrs[t].src.len
  /\ ~IQFull(queues[thrs[t].target])
  /\ queues' = [queues EXCEPT ![thrs[t].target] =
                  IQPut(@, <<thrs[t].src.id, thrs[t].pos + 1>>)]
  /\ thrs' = [thrs EXCEPT ![t].pos = @ + 1]
  /\ UNCHANGED <<now, lifeVars, last_heartbeat, regVars, rpcVars, generator,
                 enqueue_thread, inits, delivered>>

\* the iterable returns or raises: the terminal slot is set, the error kept
ProducerFinish(t, raised) ==
  /\ t \in Threads
  /\ thrs[t].state = "running"
  /\ ~queues[thrs[t].target].stopped
  /\ thrs[t].pos = thrs[t].src.len
  /\ queues' = [queues EXCEPT ![thrs[t].target] =
                  IQSetTerminal(@, IF raised THEN "exception" ELSE "returned")]
  /\ thrs' = [thrs EXCEPT ![t].state = "done"]
  /\ UNCHANGED <<now, lifeVars, last_heartbeat, regVars, rpcVars, generator,
                 enqueue_thread, inits, delivered>>

ProducerStep(t) ==
  \/ ProducerStopped(t)
  \/ ProducerPut(t)
  \/ \E raised \in BOOLEAN : ProducerFinish(t, raised)

(***************************************************************************)
(* An IteratorQueue used on its own: enqueue_from_iterator(src) runs on a  *)
(* producer thread while a consumer flushes with batch_size=0 until the    *)
(* queue is exhausted and then takes the terminal slot.                    *)
(***************************************************************************)
QueueSubmit(len) ==
  /\ inits < MaxInits
  /\ inits' = inits + 1
  /\ queues' = Append(queues, IQNew)
  /\ delivered' = Append(delivered, <<>>)
  /\ thrs' = Append(thrs, [target |-> Len(queues) + 1,
                           src |-> [id |-> inits + 1, len |-> len,
                                    iterable |-> TRUE],
                           pos |-> 0, state |-> "running"])
  /\ UNCHANGED <<now, lifeVars, last_heartbeat, regVars, rpcVars, generator,
                 enqueue_thread>>

\* the consumer has taken the terminal sentinel
ConsumerEnded(q) ==
  delivered[q] # <<>> /\ IsSentinel(delivered[q][Len(delivered[q])])

\* flush(0): everything buffered at the moment
ConsumerFlush(q) ==
  /\ q \in DOMAIN queues
  /\ ~ConsumerEnded(q)
  /\ queues[q].items # <<>>
  /\ delivered' = [delivered EXCEPT ![q] = @ \o IQFlushed(queues[q], 0)]
  /\ queues' = [queues EXCEPT ![q] = IQAfterFlush(@, 0)]
  /\ UNCHANGED <<now, lifeVars, last_heartbeat, regVars, rpcVars, generator,
                 enqueue_thread, thrs, inits>>

\* the queue is exhausted: the terminal slot ends the stream
ConsumerEnd(q) ==
  /\ q \in DOMAIN queues
  /\ ~ConsumerEnded(q)
  /\ IQExhausted(queues[q])
  /\ delivered' = [delivered EXCEPT ![q] = Append(@, Sentinel(queues[q]))]
  /\ UNCHANGED <<now, lifeVars, last_heartbeat, regVars, rpcVars, generator,
                 enqueue_thread, queues, thrs, inits>>

(***************************************************************************)
(* The 'init_generator' binding (pickled_init_iterator).                   *)
(***************************************************************************)
InitInProgress(h) ==
  hpc[h] \in {"ig_check", "ig_join", "ig_joining", "ig_queue", "ig_thread",
              "ig_start", "ig_notify"}

NoInitInProgress == \A h \in Handlers : ~InitInProgress(h)

\* variant: the result is taken for an iterable whatever it is
IsIterableAlways(iterable) == TRUE

\* isinstance(result, Iterable)
IsIterable(iterable) == iterable

\* result = maybe_make(maybe_lazy); TypeError unless it is an Iterable
InitBegin(h, iterable, len) ==
  /\ hpc[h] = "idle"
  /\ Serving
  /\ inits < MaxInits
  /\ IF IsIterable(iterable)
       THEN /\ inits' = inits + 1
            /\ hloc' = [hloc EXCEPT ![h].src =
                          [id |-> inits + 1, len |-> len,
                           iterable |-> iterable]]
            /\ hpc' = [hpc EXCEPT ![h] = "ig_check"]
            /\ UNCHANGED rpc_error
       ELSE /\ rpc_error' = "TypeError"
            /\ UNCHANGED <<inits, hloc, hpc>>
  /\ UNCHANGED <<now, lifeVars, last_heartbeat, regVars, mm_call, generator,
                 enqueue_thread, queues, thrs, delivered>>

\* if self._generator is not None and not self._generator.exhausted:
\*   self._generator.stop_enqueue()
InitCheck(h) ==
  /\ hpc[h] = "ig_check"
  /\ IF generator # None /\ ~IQExhausted(queues[generator])
       THEN /\ queues' = [queues EXCEPT ![generator] = IQStopEnqueue(@)]
            /\ hpc' = [hpc EXCEPT ![h] = "ig_join"]
       ELSE /\ hpc' = [hpc EXCEPT ![h] = "ig_queue"]
            /\ UNCHANGED queues
  /\ UNCHANGED <<now, lifeVars, last_heartbeat, regVars, hloc, rpc_error, mm_call,
                 generator, enqueue_thread, thrs, inits, delivered>>

\* if self._enqueue_thread: self._enqueue_thread.join()  -- the call
InitJoinCall(h) ==
  /\ hpc[h] = "ig_join"
  /\ IF enqueue_thread = None
       THEN /\ hpc' = [hpc EXCEPT ![h] = "ig_queue"]
            /\ UNCHANGED <<hloc, rpc_error>>
       ELSE IF thrs[enqueue_thread].state = "new"
              \* join() of a thread that was not started raises
              THEN /\ rpc_error' = "RuntimeError"
                   /\ hpc' = [hpc EXCEPT ![h] = "idle"]
                   /\ hloc' = [hloc EXCEPT ![h] = NoLoc]
              ELSE /\ hloc' = [hloc EXCEPT ![h].jt = enqueue_thread]
                   /\ hpc' = [hpc EXCEPT ![h] = "ig_joining"]
                   /\ UNCHANGED rpc_error
  /\ UNCHANGED <<now, lifeVars, last_heartbeat, regVars, mm_call, genVars>>

\* a join() that would not wait for the thread to end
JoinSkipped(t) == TRUE

\* join() returns when the joined thread has ended
JoinReturns(t) == thrs[t].state = "done"

InitJoined(h) ==
  /\ hpc[h] = "ig_joining"
  /\ JoinReturns(hloc[h].jt)
  /\ hpc' = [hpc EXCEPT ![h] = "ig_queue"]
  /\ hloc' = [hloc EXCEPT ![h].jt = None]
  /\ UNCHANGED <<now, lifeVars, last_heartbeat, regVars, rpc_error, mm_call, genVars>>

\* self._generator = iter_utils.IteratorQueue(self.prefetch_size, ...)
InitQueue(h) ==
  /\ hpc[h] = "ig_queue"
  /\ queues' = Append(queues, IQNew)
  /\ delivered' = Append(delivered, <<>>)
  /\ generator' = Len(queues) + 1
  /\ hpc' = [hpc EXCEPT ![h] = "ig_thread"]
  /\ UNCHANGED <<now, lifeVars, last_heartbeat, regVars, hloc, rpc_error, mm_call,
                 enqueue_thread, thrs, inits>>

\* self._enqueue_thread = threading.Thread(
\*     target=self._generator.enqueue_from_iterator, args=(result,))
InitThread(h) ==
  /\ hpc[h] = "ig_thread"
  /\ thrs' = Append(thrs, [target |-> generator, src |-> hloc[h].src,
                           pos |-> 0, state |-> "new"])
  /\ enqueue_thread' = Len(thrs) + 1
  /\ hpc' = [hpc EXCEPT ![h] = "ig_start"]
  /\ UNCHANGED <<now, lifeVars, last_heartbeat, regVars, hloc, rpc_error, mm_call,
                 generator, queues, inits, delivered>>

\* self._enqueue_thread.start(): a thread can be started once
InitStart(h) ==
  /\ hpc[h] = "ig_start"
  /\ IF thrs[enqueue_thread].state = "new"
       THEN /\ thrs' = [thrs EXCEPT ![enqueue_thread].state = "running"]
            /\ hpc' = [hpc EXCEPT ![h] = "ig_notify"]
            /\ UNCHANGED <<hloc, rpc_error>>
       ELSE /\ rpc_error' = "RuntimeError"
            /\ hpc' = [hpc EXCEPT ![h] = "idle"]
            /\ hloc' = [hloc EXCEPT ![h] = NoLoc]
            /\ UNCHANGED thrs
  /\ UNCHANGED <<now, lifeVars, last_heartbeat, regVars, mm_call, generator,
                 enqueue_thread, queues, inits, delivered>>

\* with self._shutdown_lock: self._shutdown_lock.notify_all()
InitNotify(h) ==
  /\ hpc[h] = "ig_notify"
  /\ shutdown_lock = "free"
  /\ lpc' = NotifiedPc
  /\ hpc' = [hpc EXCEPT ![h] = "idle"]
  /\ hloc' = [hloc EXCEPT ![h] = NoLoc]
  /\ UNCHANGED <<now, entry_mode, auxVars, epVars, server, eps_made, started_eps, thread, runs,
                 shutdown_requested, shutdown_lock, shutdown_callback, cb_calls,
                 last_heartbeat, regVars, rpc_error, mm_call, genVars>>

(***************************************************************************)
(* The 'next_batch_from_generator' binding (_next_batch_from_iterator).    *)
(***************************************************************************)
BatchSizes == {0, 1}

\* variant: the assertion lets an empty slot through
GeneratorAssumedSet == FALSE

\* the assertion fails: self._generator is None
GeneratorMissing == generator = None

\* assert self._generator is not None
FetchBegin(h, batch_size) ==
  /\ hpc[h] = "idle"
  /\ Serving
  /\ IF GeneratorMissing
       THEN /\ rpc_error' = "AssertionError"
            /\ UNCHANGED <<hpc, hloc>>
       ELSE /\ hloc' = [hloc EXCEPT ![h].q = generator, ![h].batch = batch_size]
            /\ hpc' = [hpc EXCEPT ![h] = "nb_flush"]
            /\ UNCHANGED rpc_error
  /\ UNCHANGED <<now, lifeVars, last_heartbeat, regVars, mm_call, genVars>>

\* `not self._generator`: the truth value of the slot.  An IteratorQueue
\* object is true; only the empty slot (None) is false.
SlotIsFalse(g) == g = None

\* if not self._generator: result.append(<terminal sentinel>)
\* (reached with the slot empty, the attribute lookup on None fails)
FetchResult(g, result) ==
  IF SlotIsFalse(g)
    THEN Append(result, <<0, "AttributeError">>)
    ELSE result

\* result = self._generator.flush(batch_size, block=True); ...; return result
FetchFlush(h) ==
  /\ hpc[h] = "nb_flush"
  /\ IQCanFlush(queues[hloc[h].q])
  /\ queues' = [queues EXCEPT ![hloc[h].q] = IQAfterFlush(@, hloc[h].batch)]
  /\ delivered' = [delivered EXCEPT ![hloc[h].q] =
                     @ \o FetchResult(generator,
                            IQFlushed(queues[hloc[h].q], hloc[h].batch))]
  /\ hpc' = [hpc EXCEPT ![h] = "idle"]
  /\ hloc' = [hloc EXCEPT ![h] = NoLoc]
  /\ UNCHANGED <<now, lifeVars, last_heartbeat, regVars, rpc_error, mm_call,
                 generator, enqueue_thread, thrs, inits>>

(***************************************************************************)
(* The 'next_from_generator' binding (next_from_iterator):                 *)
(* _next_batch_from_iterator(batch_size=1)[0].                             *)
(***************************************************************************)
NextFromBegin(h) ==
  /\ hpc[h] = "idle"
  /\ Serving
  /\ IF GeneratorMissing
       THEN /\ rpc_error' = "AssertionError"
            /\ UNCHANGED <<hpc, hloc>>
       ELSE /\ hloc' = [hloc EXCEPT ![h].q = generator, ![h].batch = 1]
            /\ hpc' = [hpc EXCEPT ![h] = "nf_flush"]
            /\ UNCHANGED rpc_error
  /\ UNCHANGED <<now, lifeVars, last_heartbeat, regVars, mm_call, genVars>>

\* the batch of size 1, with what _next_batch_from_iterator appends to it
NextFromBatch(h) ==
  FetchResult(generator, IQFlushed(queues[hloc[h].q], 1))

\* ...[0]: the first element of the batch, IndexError on an empty batch
NextFromFlush(h) ==
  /\ hpc[h] = "nf_flush"
  /\ IQCanFlush(queues[hloc[h].q])
  /\ queues' = [queues EXCEPT ![hloc[h].q] = IQAfterFlush(@, 1)]
  /\ IF NextFromBatch(h) = <<>>
       THEN /\ rpc_error' = "IndexError"
            /\ UNCHANGED delivered
       ELSE /\ delivered' = [delivered EXCEPT ![hloc[h].q] =
                               Append(@, NextFromBatch(h)[1])]
            /\ UNCHANGED rpc_error
  /\ hpc' = [hpc EXCEPT ![h] = "idle"]
  /\ hloc' = [hloc EXCEPT ![h] = NoLoc]
  /\ UNCHANGED <<now, lifeVars, last_heartbeat, regVars, mm_call, generator,
                 enqueue_thread, thrs, inits>>

(***************************************************************************)
(* Equality of server handles: CourierServer.__eq__ / __hash__ and the     *)
(* overrides of PrefetchedCourierServer.  A handle is its class, its       *)
(* resolved address and the attributes the comparison reads.               *)
(***************************************************************************)
SecsValues == 1..(AutoShutdownSecs + 1)
PrefetchSizes == 1..(PrefetchSize + 1)

ServerHandles ==
  [cls : {"CourierServer"}, address : Addrs, auto_shutdown_secs : SecsValues,
   prefetch_size : {None}]
  \cup
  [cls : {"PrefetchedCourierServer"}, address : Addrs,
   auto_shutdown_secs : SecsValues, prefetch_size : PrefetchSizes]

\* isinstance(h, cls): PrefetchedCourierServer derives from CourierServer
IsInstance(h, cls) == cls = "CourierServer" \/ h.cls = cls

\* hash(self.address)
ServerHash(x) == x.address

\* CourierServer.__eq__(x, y)
CourierServerEq(x, y) ==
  /\ IsInstance(y, "CourierServer")
  /\ x.address = y.address
  /\ x.auto_shutdown_secs = y.auto_shutdown_secs

\* variant: the override does not look at prefetch_size
PrefetchSizeIgnored(x, y) == TRUE

\* self.prefetch_size == other.prefetch_size
PrefetchSizeMatches(x, y) == x.prefetch_size = y.prefetch_size

\* PrefetchedCourierServer.__eq__(x, y)
PrefetchedCourierServerEq(x, y) ==
  /\ CourierServerEq(x, y)
  /\ IsInstance(y, "PrefetchedCourierServer")
  /\ PrefetchSizeMatches(x, y)

\* type(x).__eq__(x, y)
ClassEq(x, y) ==
  IF x.cls = "PrefetchedCourierServer"
    THEN PrefetchedCourierServerEq(x, y)
    ELSE CourierServerEq(x, y)

\* x == y: the right operand's method goes first when its class is a proper
\* subclass of the left one's and overrides __eq__
ServerEq(x, y) ==
  IF x.cls = "CourierServer" /\ y.cls = "PrefetchedCourierServer"
    THEN ClassEq(y, x)
    ELSE ClassEq(x, y)

Compare(x, y) ==
  /\ eq_call' = [done |-> TRUE, x |-> x, y |-> y, result |-> ServerEq(x, y)]
  /\ UNCHANGED <<workerVars, rb, now, entry_mode, server_name, build_op, states_lock, spc,
                 sloc, sret, epVars, server, eps_made, started_eps, thread,
                 lpc, runs, shutdown_requested, shutdown_lock,
                 shutdown_callback, cb_calls, last_heartbeat, regVars, rpcVars,
                 genVars>>

(***************************************************************************)
(* The client side: Worker and WorkerPool.  A call is a maybe_make RPC     *)
(* whose remote computation takes 'duration' ticks; its State is pending   *)
(* until the reply or the call's timeout resolves it.                      *)
(***************************************************************************)
serverVars == <<now, entry_mode, server_name, build_op, states_lock, spc,
                sloc, sret, epVars, server, eps_made, started_eps, thread,
                lpc, runs, shutdown_requested, shutdown_lock,
                shutdown_callback, cb_calls, last_heartbeat, regVars, rpcVars,
                genVars>>

Pending(id) == wcalls[id].status = "pending"

\* variant: capacity is still reported with max_parallelism calls in flight
HasCapacityOffByOne(w) == Cardinality(pending_calls[w]) <= MaxParallelism

\* has_capacity: len(pending_calls) < max_parallelism
HasCapacity(w) == Cardinality(pending_calls[w]) < MaxParallelism

RECURSIVE IdleFrom(_)
\* the workers from position i on that have capacity, in pool order
IdleFrom(i) ==
  IF i > Len(WorkerAddrs) THEN <<>>
  ELSE IF HasCapacity(i) THEN <<i>> \o IdleFrom(i + 1)
  ELSE IdleFrom(i + 1)

\* WorkerPool.idle_workers()
IdleWorkers == IdleFrom(1)

\* set_timeout(seconds): applies to subsequent calls
SetTimeout(w, secs) ==
  /\ call_timeout[w] # secs
  /\ call_timeout' = [call_timeout EXCEPT ![w] = secs]
  /\ UNCHANGED <<wcalls, ncalls, pending_calls, eq_call, rb, serverVars>>

\* call(lazy_object): returns a pending State and adds it to pending_calls
WorkerCall(w, duration) ==
  /\ ncalls < MaxCalls
  /\ ncalls' = ncalls + 1
  /\ wcalls' = [wcalls EXCEPT ![ncalls + 1] =
                  [worker |-> w, status |-> "pending", duration |-> duration,
                   timeout |-> call_timeout[w], elapsed |-> 0]]
  /\ pending_calls' = [pending_calls EXCEPT ![w] = @ \cup {ncalls + 1}]
  /\ UNCHANGED <<call_timeout, eq_call, rb, serverVars>>

\* the remote computation has run to its end
RemoteDone(c) == c.elapsed >= c.duration

\* variant: the timeout of a call never fires
TimeoutNever(c) == FALSE

\* the call has been in flight for its timeout
TimedOut(c) == c.timeout # 0 /\ c.elapsed >= c.timeout

Due(id) == Pending(id) /\ (RemoteDone(wcalls[id]) \/ TimedOut(wcalls[id]))

\* time passes for the calls in flight; a due call resolves first
WorkerTick ==
  /\ \E id \in CallIds : Pending(id)
  /\ \A id \in CallIds : ~Due(id)
  /\ wcalls' = [id \in CallIds |->
                  IF Pending(id)
                    THEN [wcalls[id] EXCEPT !.elapsed = @ + 1]
                    ELSE wcalls[id]]
  /\ UNCHANGED <<ncalls, pending_calls, call_timeout, eq_call, rb, serverVars>>

\* variant: a resolved call stays in the pending set
PendingKept(p, id) == p

\* completion removes the call from pending_calls
PendingWithout(p, id) == p \ {id}

\* a resolved State keeps its outcome only
Resolved(w, status) == [NoWCall EXCEPT !.worker = w, !.status = status]

Resolve(id, status) ==
  /\ wcalls' = [wcalls EXCEPT ![id] = Resolved(wcalls[id].worker, status)]
  /\ pending_calls' = [pending_calls EXCEPT ![wcalls[id].worker] =
                         PendingWithout(@, id)]
  /\ UNCHANGED <<ncalls, call_timeout, eq_call, rb, serverVars>>

\* the reply arrives: the State resolves with a value or with an exception
ResolveReply(id, ok) ==
  /\ Pending(id)
  /\ RemoteDone(wcalls[id])
  /\ Resolve(id, IF ok THEN "done" ELSE "exception")

\* the call exceeded its timeout: the State resolves to a timeout exception
ResolveTimeout(id) ==
  /\ Pending(id)
  /\ TimedOut(wcalls[id])
  /\ Resolve(id, "timeout")

(***************************************************************************)
(* Rebatching (iter_utils.rebatched_tuples), as the design document        *)
(* describes it: the columns of the incoming tuples are buffered and       *)
(* re-chunked into tuples of batch_size rows, a shorter one at the end;    *)
(* batch_size 0 passes every input tuple through.                          *)
(***************************************************************************)
\* the row counts of the input tuples of a stream
BatchLens == UNION {[1..n -> 0..MaxItems] : n \in 0..MaxBatches}

RECURSIVE RowsBefore(_, _)
\* the number of rows in the first j - 1 tuples
RowsBefore(lens, j) ==
  IF j <= 1 THEN 0 ELSE RowsBefore(lens, j - 1) + lens[j - 1]

\* a stream of tuples of ncols columns; row k of column c is <<c, k>>
TuplesOf(lens, ncols) ==
  [j \in 1..Len(lens) |->
     [c \in 1..ncols |->
        [i \in 1..lens[j] |-> <<c, RowsBefore(lens, j) + i>>]]]

\* the number of rows of a tuple, the length of its first column
Rows(tuple) == Len(tuple[1])

\* the first size rows of every column
TakeRows(tuple, size) ==
  [c \in DOMAIN tuple |-> SubSeq(tuple[c], 1, size)]

\* what is left after them
DropRows(tuple, size) ==
  [c \in DOMAIN tuple |-> SubSeq(tuple[c], size + 1, Len(tuple[c]))]

\* column by column concatenation
JoinRows(a, b) == [c \in DOMAIN a |-> a[c] \o b[c]]

rebatchFrame == <<serverVars, eq_call, workerVars>>

\* rebatched_tuples(tuples, batch_size, num_columns)
RebatchCall(lens, ncols, batch_size) ==
  /\ rb.pc = "idle"
  /\ rb' = [pc |-> IF batch_size = 0 THEN "pass" ELSE "run",
            src |-> TuplesOf(lens, ncols), in |-> TuplesOf(lens, ncols),
            size |-> batch_size, ncols |-> ncols,
            buf |-> [c \in 1..ncols |-> <<>>], out |-> <<>>]
  /\ UNCHANGED rebatchFrame

\* batch_size == 0: each input tuple is yielded as it is
RebatchPass ==
  /\ rb.pc = "pass"
  /\ IF rb.in = <<>>
       THEN rb' = [rb EXCEPT !.pc = "done"]
       ELSE rb' = [rb EXCEPT !.out = Append(@, Head(rb.in)),
                             !.in = Tail(@)]
  /\ UNCHANGED rebatchFrame

\* fewer than batch_size rows buffered: the next tuple joins the buffer
RebatchPull ==
  /\ rb.pc = "run"
  /\ Rows(rb.buf) < rb.size
  /\ rb.in # <<>>
  /\ rb' = [rb EXCEPT !.buf = JoinRows(@, Head(rb.in)), !.in = Tail(@)]
  /\ UNCHANGED rebatchFrame

\* batch_size rows are there: they leave as one tuple
RebatchEmit ==
  /\ rb.pc = "run"
  /\ Rows(rb.buf) >= rb.size
  /\ rb' = [rb EXCEPT !.out = Append(@, TakeRows(rb.buf, rb.size)),
                      !.buf = DropRows(@, rb.size)]
  /\ UNCHANGED rebatchFrame

\* variant: what is left at the end is dropped
RemainderNever(tuple) == FALSE

\* rows are left in the buffer
HasRemainder(tuple) == Rows(tuple) > 0

\* the input is exhausted: a final shorter tuple, if rows are left
RebatchEnd ==
  /\ rb.pc = "run"
  /\ Rows(rb.buf) < rb.size
  /\ rb.in = <<>>
  /\ rb' = [rb EXCEPT !.pc = "done",
                      !.out = IF HasRemainder(rb.buf)
                                THEN Append(@, rb.buf) ELSE @,
                      !.buf = [c \in 1..rb.ncols |-> <<>>]]
  /\ UNCHANGED rebatchFrame

\* the caller has consumed the output
RebatchReturn ==
  /\ rb.pc = "done"
  /\ rb' = NoRebatch
  /\ UNCHANGED rebatchFrame

(***************************************************************************)
(* Specifications.                                                         *)
(***************************************************************************)
LoopStep ==
  \/ LoopEnter
  \/ LoopAcquire
  \/ LoopCheckFlag
  \/ LoopCheckAge
  \/ LoopWait
  \/ LoopReacquire
  \/ TdCheck
  \/ TdCallback
  \/ TdStop
  \/ TdClear

NextLifecycle ==
  \/ Tick
  \/ Start
  \/ RunDirect
  \/ SetShutdownCallback
  \/ LoopStep
  \/ TimeoutWake
  \/ NotifyShutdown
  \/ Stop
  \/ \E h \in Handlers : ShutdownRpc(h)
  \/ \E h \in Handlers : HeartbeatRecv(h, NoAddr, TRUE)
  \/ \E h \in Handlers, lazy \in LazyKinds, re \in BOOLEAN :
        MaybeMakeRpc(h, lazy, re)

SpecLifecycle == Init /\ [][NextLifecycle]_vars


\* Only a request suffices: the loop's own steps are scheduled, the poll
\* timeout and the clock need not advance.
SpecNotifyFair == SpecLifecycle /\ WF_vars(LoopStep)

\* The loop's steps, the poll timeout and the clock all advance.
SpecTimeoutFair ==
  SpecLifecycle /\ WF_vars(LoopStep) /\ WF_vars(TimeoutWake) /\ WF_vars(Tick)

\* Callers on several threads call start(); the loop runs, shutdown may be
\* requested.
NextStart ==
  \/ \E c \in Callers : StartStep(c)
  \/ LoopStep
  \/ TimeoutWake
  \/ Tick
  \/ NotifyShutdown

SpecStart == Init /\ [][NextStart]_vars

\* The state inside __init__ when it reaches its build_server() call: every
\* field set, the slot empty, the name as the constructor was given it.
InitBuild ==
  /\ now = 1
  /\ entry_mode = "start"
  /\ server = None
  /\ eps_made = 0
  /\ started_eps = {}
  /\ thread = None
  /\ lpc = "none"
  /\ runs = 0
  /\ shutdown_requested = FALSE
  /\ shutdown_lock = "free"
  /\ last_heartbeat = 0
  /\ clients = <<>>
  /\ reg_op = NoRegOp
  /\ shutdown_callback = FALSE
  /\ cb_calls = 0
  /\ hpc = [h \in Handlers |-> "idle"]
  /\ hloc = [h \in Handlers |-> NoLoc]
  /\ rpc_error = "none"
  /\ mm_call = NoCall
  /\ generator = None
  /\ enqueue_thread = None
  /\ queues = <<>>
  /\ thrs = <<>>
  /\ inits = 0
  /\ delivered = <<>>
  /\ server_name \in ServerNames
  /\ threads_made = 0
  /\ ep_starts = <<>>
  /\ binds = <<>>
  /\ build_op = NoBuildOp
  /\ states_lock = "free"
  /\ spc = [c \in Callers |-> "idle"]
  /\ sloc = [c \in Callers |-> None]
  /\ sret = [c \in Callers |-> None]
  /\ ExtInit

NextBuild ==
  \/ BuildServer
  \/ Start
  \/ LoopStep
  \/ TimeoutWake
  \/ Tick
  \/ NotifyShutdown

SpecBuild == InitBuild /\ [][NextBuild]_vars

\* The state of the tests' fixture: build_server() and Start() on the
\* endpoint, no lifecycle thread.
InitServing ==
  /\ now = 1
  /\ entry_mode = "direct"
  /\ server = 1
  /\ eps_made = 1
  /\ started_eps = {1}
  /\ thread = None
  /\ lpc = "none"
  /\ runs = 0
  /\ shutdown_requested = FALSE
  /\ shutdown_lock = "free"
  /\ last_heartbeat = 0
  /\ clients = <<>>
  /\ reg_op = NoRegOp
  /\ shutdown_callback = FALSE
  /\ cb_calls = 0
  /\ hpc = [h \in Handlers |-> "idle"]
  /\ hloc = [h \in Handlers |-> NoLoc]
  /\ rpc_error = "none"
  /\ mm_call = NoCall
  /\ generator = None
  /\ enqueue_thread = None
  /\ queues = <<>>
  /\ thrs = <<>>
  /\ inits = 0
  /\ delivered = <<>>
  /\ server_name = "None"
  /\ threads_made = 0
  /\ ep_starts = <<1>>
  /\ binds = <<1>>
  /\ build_op = NoBuildOp
  /\ states_lock = "free"
  /\ spc = [c \in Callers |-> "idle"]
  /\ sloc = [c \in Callers |-> None]
  /\ sret = [c \in Callers |-> None]
  /\ ExtInit

NextRegistry ==
  \/ Tick
  \/ \E h \in Handlers, a \in Addrs \cup {NoAddr}, alive \in BOOLEAN :
        HeartbeatRecv(h, a, alive)
  \/ \E h \in Handlers : HeartbeatRegister(h)
  \/ \E a \in Addrs, t \in Times : ApiRegister(a, t)
  \/ \E a \in Addrs, t \in Times : ApiUpdate(a, t)
  \/ \E a \in Addrs : ApiUnregister(a)

SpecRegistry == InitServing /\ [][NextRegistry]_vars

InitStep(h) ==
  \/ InitCheck(h)
  \/ InitJoinCall(h)
  \/ InitJoined(h)
  \/ InitQueue(h)
  \/ InitThread(h)
  \/ InitStart(h)
  \/ InitNotify(h)

GeneratorStep ==
  \/ \E h \in Handlers : InitStep(h)
  \/ \E h \in Handlers : FetchFlush(h)
  \/ \E t \in 1..MaxInits : ProducerStep(t)

\* RPC handlers run concurrently, two init_generator calls too.
NextGenerator ==
  \/ GeneratorStep
  \/ \E h \in Handlers, b \in BatchSizes : FetchBegin(h, b)
  \/ \E h \in Handlers, iterable \in BOOLEAN, len \in 0..MaxItems :
        InitBegin(h, iterable, len)

SpecGenerator == InitServing /\ [][NextGenerator]_vars

\* One client: its init_generator calls come one after another (handler
\* h1), its fetches on another transport thread (handler h2).
NextGeneratorSeq ==
  \/ GeneratorStep
  \/ \E b \in BatchSizes : FetchBegin("h2", b)
  \/ \E iterable \in BOOLEAN, len \in 0..MaxItems :
        InitBegin("h1", iterable, len)

SpecGeneratorSeq == InitServing /\ [][NextGeneratorSeq]_vars

\* The same client, fetching with next_from_generator as well.
NextFetch ==
  \/ NextGeneratorSeq
  \/ NextFromBegin("h2")
  \/ NextFromFlush("h2")

SpecFetch == InitServing /\ [][NextFetch]_vars

\* A started server with its loop running and one client whose calls fail:
\* failing maybe_make executions, non-iterables, fetches without a
\* generator, generators that crash.  Nobody requests a shutdown and the
\* clock stands still.
\* an execution that raises, and one whose exception cannot be serialized
FailingCalls == {<<"raises", FALSE>>, <<"raises_unpicklable", TRUE>>}
\* the generators are empty or yield one item before they return or crash
FailingLens == {0, 1}

NextFailures ==
  \/ Start
  \/ LoopStep
  \/ TimeoutWake
  \/ \E call \in FailingCalls : MaybeMakeRpc("h1", call[1], call[2])
  \/ \E iterable \in BOOLEAN, len \in FailingLens :
        InitBegin("h1", iterable, len)
  \/ InitStep("h1")
  \/ \E b \in BatchSizes : FetchBegin("h1", b)
  \/ FetchFlush("h1")
  \/ \E t \in 1..MaxInits : ProducerStep(t)
  \/ ShutdownRpc("h1")

SpecFailures == Init /\ [][NextFailures]_vars

\* Queues fed by a producer and flushed by a consumer, concurrently.
NextQueue ==
  \/ \E len \in 0..MaxItems : QueueSubmit(len)
  \/ \E t \in 1..MaxInits : ProducerPut(t)
  \/ \E t \in 1..MaxInits, raised \in BOOLEAN : ProducerFinish(t, raised)
  \/ \E q \in 1..MaxInits : ConsumerFlush(q)
  \/ \E q \in 1..MaxInits : ConsumerEnd(q)

SpecQueue == InitServing /\ [][NextQueue]_vars

\* Rebatching of streams of every shape within the bounds.
NextRebatch ==
  \/ \E lens \in BatchLens, ncols \in 1..MaxColumns,
        batch_size \in 0..MaxBatchSize : RebatchCall(lens, ncols, batch_size)
  \/ RebatchPass
  \/ RebatchPull
  \/ RebatchEmit
  \/ RebatchEnd
  \/ RebatchReturn

SpecRebatch == InitServing /\ [][NextRebatch]_vars

\* Comparisons of handles.
NextEquality == \E x, y \in ServerHandles : Compare(x, y)

SpecEquality == Init /\ [][NextEquality]_vars

\* A pool of workers issuing calls.
NextWorker ==
  \/ \E w \in Workers, d \in 1..MaxDuration : WorkerCall(w, d)
  \/ \E w \in Workers, secs \in 0..MaxTimeout : SetTimeout(w, secs)
  \/ WorkerTick
  \/ \E id \in CallIds, ok \in BOOLEAN : ResolveReply(id, ok)
  \/ \E id \in CallIds : ResolveTimeout(id)

SpecWorker == InitServing /\ [][NextWorker]_vars

\* One worker issuing calls, as in test_worker_timeout.
NextOneWorker ==
  \/ \E d \in 1..MaxDuration : WorkerCall(1, d)
  \/ \E secs \in 0..MaxTimeout : SetTimeout(1, secs)
  \/ WorkerTick
  \/ \E id \in CallIds, ok \in BOOLEAN : ResolveReply(id, ok)
  \/ \E id \in CallIds : ResolveTimeout(id)

\* time passes and a due call is resolved
SpecWorkerFair ==
  /\ InitServing /\ [][NextOneWorker]_vars
  /\ WF_vars(WorkerTick)
  /\ \A id \in CallIds :
       WF_vars(ResolveTimeout(id) \/ \E ok \in BOOLEAN : ResolveReply(id, ok))

SpecGeneratorSeqFair ==
  /\ SpecGeneratorSeq
  /\ WF_vars(InitStep("h1"))
  /\ \A t \in 1..MaxInits : WF_vars(ProducerStep(t))

(***************************************************************************)
(* C1. A shutdown request (notify_shutdown(), stop() or the 'shutdown'     *)
(* RPC) made at any point of the lifecycle loop makes the loop exit, with  *)
(* no poll timeout and no further heartbeat needed: whenever the loop is   *)
(* running and shutdown is requested, the loop eventually leaves.          *)
(***************************************************************************)
C1_RequestNeverLost == (InLoop /\ shutdown_requested) ~> ~InLoop

\* a request has reached the waiting loop before the heartbeat expired
C1_Witness == lpc = "woken" /\ shutdown_requested /\ ~HeartbeatExpired

(***************************************************************************)
(* C2. Whenever run_until_shutdown returns, the endpoint has been stopped  *)
(* and the server slot is empty.                                           *)
(***************************************************************************)
C2_ExitReleasesEndpoint ==
  [][(lpc # "done" /\ lpc' = "done")
       => (server' = None /\ server \notin started_eps')]_vars

(***************************************************************************)
(* C3. The loop itself sets shutdown-requested only at a check that finds  *)
(* now - last_heartbeat > auto_shutdown_secs; it leaves only when shutdown *)
(* was requested or the heartbeat expired, and otherwise goes back to      *)
(* waiting; and once heartbeats have stopped it eventually sets            *)
(* shutdown-requested and leaves.                                          *)
(***************************************************************************)
C3_LoopStep ==
  /\ (shutdown_lock = "loop" /\ ~shutdown_requested /\ shutdown_requested')
       => HeartbeatExpired
  /\ (InLoop /\ ~InLoop')
       => (shutdown_requested' /\ (shutdown_requested \/ HeartbeatExpired))
  /\ (lpc = "check_age" /\ lpc' # lpc /\ ~HeartbeatExpired)
       => (lpc' = "prewait" /\ ~shutdown_requested')

C3_HeartbeatTimeout ==
  /\ [][C3_LoopStep]_vars
  /\ (InLoop /\ last_heartbeat + AutoShutdownSecs < MaxTime)
       ~> (~InLoop /\ shutdown_requested)

\* the loop left because the heartbeat expired, nobody having asked
C3_Witness ==
  lpc = "td_check" /\ HeartbeatExpired /\ last_heartbeat > 0
    /\ last_heartbeat + AutoShutdownSecs < MaxTime


(***************************************************************************)
(* C8. Every heartbeat call sets last_heartbeat to the current time.  With *)
(* a sender address it then registers the address with the last-heartbeat  *)
(* time (is_alive) or removes it (not is_alive), touching no other entry;  *)
(* with the empty address the registry is left as it was.                  *)
(***************************************************************************)
C8_Step ==
  /\ \A h \in Handlers :
       (hpc[h] = "idle" /\ hpc'[h] = "hb_register")
         => /\ last_heartbeat' = now
            /\ clients' = clients
            /\ hloc'[h].addr \in Addrs
  /\ \A h \in Handlers :
       (hpc[h] = "hb_register" /\ hpc'[h] = "idle")
         => /\ hloc[h].alive
                 => /\ hloc[h].addr \in DOMAIN clients'
                    /\ clients'[hloc[h].addr] = last_heartbeat
            /\ ~hloc[h].alive => hloc[h].addr \notin DOMAIN clients'
            /\ \A b \in Addrs \ {hloc[h].addr} :
                 RegistryGet(clients', b) = RegistryGet(clients, b)
            /\ last_heartbeat' = last_heartbeat
  /\ (hpc' = hpc /\ reg_op' = reg_op)
         => /\ clients' = clients
            /\ last_heartbeat' # last_heartbeat => last_heartbeat' = now

C8_HeartbeatEffect == [][C8_Step]_vars

\* a heartbeat has registered one address and a later one removed another
C8_Witness ==
  /\ reg_op.op = "none"
  /\ DOMAIN clients = {"a"}
  /\ clients["a"] < last_heartbeat
  /\ \E h \in Handlers : hpc[h] = "hb_register" /\ ~hloc[h].alive

(***************************************************************************)
(* C9. update(addr, t) on a registered address completes normally and      *)
(* leaves max(old, t); on an unregistered address it raises ValueError and *)
(* leaves the registry unchanged.                                          *)
(***************************************************************************)
C9_UpdateStep ==
  (reg_op' # reg_op /\ reg_op'.op = "update") =>
    IF reg_op'.addr \in DOMAIN clients
      THEN /\ ~reg_op'.raised
           /\ clients' =
                [clients EXCEPT
                   ![reg_op'.addr] = Max(clients[reg_op'.addr], reg_op'.time)]
      ELSE reg_op'.raised /\ clients' = clients

C9_UpdateContract == [][C9_UpdateStep]_vars

(***************************************************************************)
(* C10 as stated. Across register, update, unregister and heartbeat, the   *)
(* time stored for an address never decreases while it stays registered.   *)
(***************************************************************************)
C10_NeverDecreases ==
  [][\A a \in DOMAIN clients \cap DOMAIN clients' : clients'[a] >= clients[a]]_vars

(***************************************************************************)
(* C10 amended. The time stored for a registered address never decreases   *)
(* across heartbeats alone, and no update() or unregister() lowers it;     *)
(* register() overwrites, so the time is lowered exactly by a register     *)
(* with a time older than the stored one: a direct register(addr, t), or   *)
(* the heartbeat's register once a direct call has stored a time ahead of  *)
(* the server's last heartbeat.                                            *)
(***************************************************************************)
C10_DirectRegister(a) ==
  /\ reg_op' # reg_op
  /\ reg_op'.op = "register"
  /\ reg_op'.addr = a
  /\ reg_op'.time = clients'[a]

C10_HeartbeatRegister(a) ==
  /\ reg_op.op # "none"
  /\ reg_op' = reg_op
  /\ \E h \in Handlers :
       /\ hpc[h] = "hb_register" /\ hpc'[h] = "idle"
       /\ hloc[h].addr = a /\ hloc[h].alive
  /\ clients'[a] = last_heartbeat

C10_OnlyRegisterLowers ==
  [][\A a \in DOMAIN clients \cap DOMAIN clients' :
       clients'[a] < clients[a]
         => (C10_DirectRegister(a) \/ C10_HeartbeatRegister(a))]_vars

\* update() with an older time has kept the newer one, which a later
\* heartbeat had stored over an earlier one
C10_Witness ==
  /\ reg_op.op = "update" /\ reg_op.seq = 1
  /\ reg_op.addr \in DOMAIN clients
  /\ reg_op.time < clients[reg_op.addr]
  /\ clients[reg_op.addr] = now /\ now > 1

(***************************************************************************)
(* C4. A second init_generator on a server whose generator is not          *)
(* exhausted does not deadlock: the handler signals stop-enqueue, joins    *)
(* the old producer, and creates the new queue and starts the new producer *)
(* only when no producer runs any more.  Afterwards the active generator   *)
(* is the new one, and a fetch that begins then reads the new queue, which *)
(* holds and returns items of its own iterable only.                       *)
(***************************************************************************)
Running(t) == thrs[t].state = "running"

C4_JoinedBeforeReplace ==
  \A h \in Handlers :
    hpc[h] \in {"ig_queue", "ig_thread", "ig_start"}
      => \A t \in Threads : ~Running(t)

C4_OwnItemsOnly ==
  \A q \in DOMAIN queues :
    /\ \A i \in DOMAIN queues[q].items : queues[q].items[i][1] = q
    /\ \A i \in DOMAIN delivered[q] : delivered[q][i][1] \in {q, 0}

C4_NewIsActive ==
  (NoInitInProgress /\ inits > 0)
    => /\ generator = inits
       /\ enqueue_thread = inits
       /\ thrs[enqueue_thread].target = generator
       /\ thrs[enqueue_thread].src.id = inits
       /\ \A t \in Threads : Running(t) => t = enqueue_thread

C4_LaterFetch ==
  \A h \in Handlers :
    (hpc[h] = "idle" /\ hpc'[h] = "nb_flush" /\ NoInitInProgress)
      => hloc'[h].q = inits

\* no deadlock: a handler inside init_generator can take its next step, or,
\* waiting in join(), the producer it joins can take one
C4_NeverStuck ==
  \A h \in Handlers :
    InitInProgress(h)
      => \/ ENABLED InitStep(h)
         \/ hpc[h] = "ig_joining" /\ ENABLED ProducerStep(hloc[h].jt)

C4_Supersedes ==
  /\ [](C4_NeverStuck /\ C4_JoinedBeforeReplace /\ C4_OwnItemsOnly
          /\ C4_NewIsActive)
  /\ [][C4_LaterFetch]_vars

\* C4, the same as progress: with the handler and the producers scheduled,
\* every init_generator call returns
C4_InitReturns == \A h \in Handlers : InitInProgress(h) ~> (hpc[h] = "idle")

\* the second generator is active and has delivered; the first was left
\* with a full queue and items still to produce, its producer has ended
C4_Witness ==
  /\ Len(queues) = 2 /\ Len(thrs) = 2
  /\ NoInitInProgress
  /\ queues[1].stopped /\ IQFull(queues[1])
  /\ thrs[1].state = "done" /\ thrs[1].pos < thrs[1].src.len
  /\ generator = 2 /\ Running(2)
  /\ delivered[2] # <<>>

(***************************************************************************)
(* C5. In every reachable state, two concurrent init_generator handlers    *)
(* included, at most one producer thread is live and it feeds the queue in *)
(* the active-generator slot.                                              *)
(***************************************************************************)
C5_OneLiveProducer ==
  \A t \in Threads :
    Running(t) => /\ thrs[t].target = generator
                  /\ \A u \in Threads : Running(u) => u = t

(***************************************************************************)
(* C6. The responses of successive fetches from a generator, concatenated, *)
(* are its items in order, and a response that leaves the queue exhausted  *)
(* ends with the terminal sentinel: the exception when the iterable        *)
(* raised, a StopIteration otherwise.                                      *)
(***************************************************************************)
C6_InOrder(resp, q) ==
  \A i \in DOMAIN resp : IsSentinel(resp[i]) \/ resp[i] = <<q, i>>

C6_FetchStep ==
  \A h \in Handlers :
    (hpc[h] = "nb_flush" /\ hpc'[h] = "idle")
      => /\ C6_InOrder(delivered'[hloc[h].q], hloc[h].q)
         /\ IQExhausted(queues'[hloc[h].q])
              => /\ delivered'[hloc[h].q] # <<>>
                 /\ delivered'[hloc[h].q][Len(delivered'[hloc[h].q])]
                      = Sentinel(queues'[hloc[h].q])

ExecutionFails(lazy) == lazy \in {"raises", "raises_unpicklable"}

C7_AsStated ==
  ExecutionFails(mm_call.lazy)
    => IF mm_call.return_exception
         THEN /\ mm_call.status = "ok"
              /\ mm_call.payload = Dumps(Make(mm_call.lazy).value)
         ELSE /\ mm_call.status = "error"
              /\ mm_call.payload = Make(mm_call.lazy).value

(***************************************************************************)
(* C7 amended. With return_exception false the call fails with the         *)
(* exception of the execution.  With return_exception true it succeeds     *)
(* with the serialized exception when the exception can be serialized, and *)
(* fails with the serializer's TypeError when it cannot.  No maybe_make    *)
(* call changes the server's lifecycle state.                              *)
(***************************************************************************)
C7_Outcome ==
  ExecutionFails(mm_call.lazy)
    => IF ~mm_call.return_exception
         THEN /\ mm_call.status = "error"
              /\ mm_call.payload = Make(mm_call.lazy).value
         ELSE IF Make(mm_call.lazy).value.picklable
                THEN /\ mm_call.status = "ok"
                     /\ Loads(mm_call.payload) = Make(mm_call.lazy).value
                ELSE /\ mm_call.status = "error"
                     /\ mm_call.payload = PickleTypeError

C7_LifecycleUntouched ==
  mm_call' # mm_call => UNCHANGED <<lifeVars, last_heartbeat>>

C7_FailureHandling == []C7_Outcome /\ [][C7_LifecycleUntouched]_vars

\* a failed execution came back as a result while the loop was waiting
C7_Witness ==
  /\ mm_call.lazy = "raises" /\ mm_call.return_exception
  /\ mm_call.status = "ok"
  /\ lpc = "waiting"

(***************************************************************************)
(* C11. Over any sequence of start() calls, concurrent ones included, on a *)
(* server that has not been shut down: at most one lifecycle thread is     *)
(* created, the endpoint is started at most once, and every call returns   *)
(* the same thread handle.                                                 *)
(***************************************************************************)
NotShutDown == ~shutdown_requested /\ eps_made = 1

C11_StartIdempotent ==
  NotShutDown
    => /\ threads_made <= 1
       /\ ep_starts[1] <= 1
       /\ \A c \in Callers : sret[c] # None => sret[c] = 1

\* both callers have their handle, one of them is inside start() again
\* while the loop waits
C11_Witness ==
  /\ NotShutDown
  /\ \A c \in Callers : sret[c] = 1
  /\ \E c \in Callers : spc[c] = "st_th_check"
  /\ lpc = "waiting"

(***************************************************************************)
(* C12. build_server() is idempotent: while an endpoint exists it returns  *)
(* that endpoint, creates none, binds nothing again and leaves             *)
(* shutdown-requested alone; with the slot empty it creates one endpoint,  *)
(* binds its methods once and clears shutdown-requested; with an empty     *)
(* server_name it fails and creates nothing.  No step creates an endpoint  *)
(* unless the slot is empty.                                               *)
(***************************************************************************)
C12_BuildCall ==
  build_op'.seq # build_op.seq
    => IF server_name = ""
         THEN /\ build_op'.raised
              /\ UNCHANGED <<server, eps_made, binds, ep_starts, started_eps,
                             shutdown_requested>>
         ELSE /\ ~build_op'.raised
              /\ build_op'.ret = server'
              /\ IF server # None
                   THEN UNCHANGED <<server, eps_made, binds, ep_starts,
                                    started_eps, shutdown_requested>>
                   ELSE /\ eps_made' = eps_made + 1
                        /\ server' = eps_made'
                        /\ binds' = Append(binds, 1)
                        /\ ~shutdown_requested'

C12_OnlyWhenEmpty ==
  eps_made' # eps_made
    => server = None /\ eps_made' = eps_made + 1 /\ server' = eps_made'

C12_BuildIdempotent == [][C12_BuildCall /\ C12_OnlyWhenEmpty]_vars

\* after a shutdown tore the first endpoint down, the next build_server()
\* made the second endpoint, bound its methods and cleared the flag
C12_Witness ==
  /\ eps_made = 2 /\ server = 2
  /\ build_op.ret = 2 /\ build_op.seq = 0
  /\ binds = <<1, 1>>
  /\ ~shutdown_requested

(***************************************************************************)
(* C13. init_generator with a lazy object that does not resolve to an      *)
(* iterable fails with a TypeError: no handler gets past the check with    *)
(* such a result, and the failing call leaves the active generator, its    *)
(* producer thread and the lifecycle state as they were.                   *)
(***************************************************************************)
C13_OnlyIterables ==
  /\ \A h \in Handlers : InitInProgress(h) => hloc[h].src.iterable
  /\ \A t \in Threads : thrs[t].src.iterable

C13_FailedCall ==
  (rpc_error' = "TypeError" /\ rpc_error # "TypeError")
    => UNCHANGED <<generator, enqueue_thread, queues, thrs, inits, delivered,
                   hpc, hloc, lifeVars, last_heartbeat>>

C13_NonIterableRejected == []C13_OnlyIterables /\ [][C13_FailedCall]_vars

\* a call was rejected; the generator and its producer are at work
C13_Witness ==
  /\ rpc_error = "TypeError"
  /\ generator # None /\ enqueue_thread # None
  /\ Running(enqueue_thread)
  /\ queues[generator].items # <<>>

(***************************************************************************)
(* C14. next_batch_from_generator and next_from_generator on a server      *)
(* whose generator slot is empty, no init_generator having installed a     *)
(* queue, fail with the assertion's error, return no data and change no    *)
(* server state: no fetch gets past the assertion without a generator.     *)
(***************************************************************************)
Fetching(h) == hpc[h] \in {"nb_flush", "nf_flush"}

C14_NoFetchWithoutGenerator ==
  \A h \in Handlers : Fetching(h) => hloc[h].q # None /\ inits > 0

C14_FailedFetch ==
  /\ (rpc_error' = "AssertionError" /\ rpc_error # "AssertionError")
       => /\ generator = None
          /\ UNCHANGED <<genVars, hpc, hloc, lifeVars, last_heartbeat>>
  /\ generator = None => \A h \in Handlers : ~Fetching(h)'

C14_FetchPrecondition ==
  []C14_NoFetchWithoutGenerator /\ [][C14_FailedFetch]_vars

\* a fetch was refused and the first init_generator call has not yet
\* installed its queue
C14_Witness ==
  /\ rpc_error = "AssertionError"
  /\ generator = None /\ delivered = <<>>
  /\ hpc["h1"] = "ig_check"

(***************************************************************************)
(* C15. On a server with an initialised generator every                    *)
(* next_from_generator call returns exactly one value, the next item or    *)
(* the terminal sentinel, and never fails on an empty batch, after the     *)
(* queue is exhausted in particular.                                       *)
(***************************************************************************)
C15_NextFromStep ==
  \A h \in Handlers :
    (hpc[h] = "nf_flush" /\ hpc'[h] = "idle")
      => /\ rpc_error' = rpc_error
         /\ Len(delivered'[hloc[h].q]) = Len(delivered[hloc[h].q]) + 1

SameAddressAndSecs(x, y) ==
  x.address = y.address /\ x.auto_shutdown_secs = y.auto_shutdown_secs

SameClassAndPrefetch(x, y) ==
  x.cls = y.cls /\ x.prefetch_size = y.prefetch_size

Compared == eq_call.done

C16_Equality ==
  Compared =>
    /\ eq_call.result <=> /\ SameAddressAndSecs(eq_call.x, eq_call.y)
                          /\ SameClassAndPrefetch(eq_call.x, eq_call.y)
    /\ eq_call.result => ServerHash(eq_call.x) = ServerHash(eq_call.y)
    /\ eq_call.result = ServerEq(eq_call.y, eq_call.x)

\* C16 as stated: address and auto_shutdown_secs alone decide
C16_AsStated ==
  Compared => (eq_call.result <=> SameAddressAndSecs(eq_call.x, eq_call.y))

\* two prefetching handles that differ only in prefetch_size were compared
C16_Witness ==
  /\ Compared
  /\ eq_call.x.cls = "PrefetchedCourierServer"
  /\ eq_call.y.cls = "PrefetchedCourierServer"
  /\ SameAddressAndSecs(eq_call.x, eq_call.y)
  /\ eq_call.x.prefetch_size # eq_call.y.prefetch_size
  /\ ~eq_call.result

(***************************************************************************)
(* C17. For any interleaving of calls and completions, a worker's pending  *)
(* set is the set of its calls whose State has not resolved: it grows by   *)
(* one exactly at each call(), shrinks by one exactly when that call       *)
(* resolves, with a value or an exception, and is empty once all resolved. *)
(***************************************************************************)
Unresolved(w) == {id \in CallIds : wcalls[id].worker = w /\ Pending(id)}

NumPending(w) == Cardinality(pending_calls[w])

C17_PendingIsUnresolved ==
  \A w \in Workers : pending_calls[w] = Unresolved(w)

C17_PendingStep ==
  \A w \in Workers :
    /\ NumPending(w)' = NumPending(w) + 1
         <=> (ncalls' = ncalls + 1 /\ wcalls'[ncalls'].worker = w)
    /\ NumPending(w)' = NumPending(w) - 1
         <=> \E id \in CallIds : /\ wcalls[id].worker = w
                                 /\ Pending(id) /\ ~Pending(id)'
    /\ NumPending(w)' \in {NumPending(w) - 1, NumPending(w), NumPending(w) + 1}

C17_PendingTracksCalls ==
  []C17_PendingIsUnresolved /\ [][C17_PendingStep]_vars

\* a call resolved with an exception while a later call of the same worker
\* is still in flight
C17_Witness ==
  /\ wcalls[1].worker = 1 /\ wcalls[1].status = "exception"
  /\ pending_calls[1] = {2}

(***************************************************************************)
(* C18. A worker's has_capacity is true if and only if the number of its   *)
(* pending calls is below max_parallelism: it turns false when a call      *)
(* fills the last slot and true again exactly when a pending call          *)
(* resolves; idle_workers() returns exactly the workers with has_capacity  *)
(* true, in address order.                                                 *)
(***************************************************************************)
C18_CapacityRule ==
  /\ \A w \in Workers :
       HasCapacity(w) <=> Cardinality(Unresolved(w)) < MaxParallelism
  /\ {IdleWorkers[i] : i \in DOMAIN IdleWorkers}
       = {w \in Workers : HasCapacity(w)}
  /\ \A i, j \in DOMAIN IdleWorkers : i < j => IdleWorkers[i] < IdleWorkers[j]

C18_CapacityStep ==
  \A w \in Workers :
    /\ (HasCapacity(w) /\ ~HasCapacity(w)')
         => /\ ncalls' = ncalls + 1 /\ wcalls'[ncalls'].worker = w
            /\ Cardinality(Unresolved(w))' = MaxParallelism
    /\ (~HasCapacity(w) /\ HasCapacity(w)')
         => \E id \in Unresolved(w) : ~Pending(id)'
    /\ (\E id \in Unresolved(w) : ~Pending(id)')
         => (HasCapacity(w)' <=> Cardinality(Unresolved(w)) <= MaxParallelism)

C18_HasCapacity == []C18_CapacityRule /\ [][C18_CapacityStep]_vars

\* the first worker is full, so only the second one is idle
C18_Witness ==
  /\ NumPending(1) = MaxParallelism
  /\ ~HasCapacity(1) /\ HasCapacity(2)
  /\ IdleWorkers = <<2>>

(***************************************************************************)
(* C19. A call whose timeout is shorter than the duration of the remote    *)
(* computation eventually resolves its State to a timeout exception; it    *)
(* never resolves otherwise, is never left pending forever, and is out of  *)
(* the worker's pending set once resolved.                                 *)
(***************************************************************************)
ShortTimeout(id) ==
  /\ Pending(id)
  /\ wcalls[id].timeout # 0
  /\ wcalls[id].timeout < wcalls[id].duration

C19_TimeoutStep ==
  \A id \in CallIds :
    ShortTimeout(id) =>
      /\ wcalls'[id].status \in {"pending", "timeout"}
      /\ wcalls'[id].status = "timeout"
           => id \notin pending_calls'[wcalls[id].worker]

C19_TimeoutResolves ==
  /\ [][C19_TimeoutStep]_vars
  /\ \A id \in CallIds : ShortTimeout(id) ~> wcalls[id].status = "timeout"

\* a call timed out while a call without a timeout is still in flight
C19_Witness ==
  \E id, other \in CallIds :
    /\ wcalls[id].status = "timeout"
    /\ id \notin pending_calls[wcalls[id].worker]
    /\ Pending(other) /\ wcalls[other].timeout = 0
    /\ wcalls[other].worker = wcalls[id].worker

(***************************************************************************)
(* C20. For every sequence of N items a producer enqueues into an          *)
(* IteratorQueue while a consumer concurrently flushes with batch_size=0,  *)
(* the consumer receives exactly the N items in enqueue order, none lost   *)
(* or duplicated, followed by exactly one terminal sentinel; no item is    *)
(* enqueued after the terminal slot is set; and exhausted is false until   *)
(* the terminal slot is set and all buffered items are drained.            *)
(***************************************************************************)
NotSentinel(e) == ~IsSentinel(e)

\* the items the consumer of queue q has received so far
Received(q) == SelectSeq(delivered[q], NotSentinel)

\* the first n items of source id, in the order the source yields them
SourceItems(id, n) == [i \in 1..n |-> <<id, i>>]

C20_Fifo ==
  \A q \in DOMAIN queues :
    Received(q) \o queues[q].items = SourceItems(thrs[q].src.id, thrs[q].pos)

C20_OneSentinel ==
  \A q \in DOMAIN queues :
    \A i \in DOMAIN delivered[q] :
      IsSentinel(delivered[q][i])
        => /\ i = Len(delivered[q])
           /\ i = thrs[q].src.len + 1
           /\ delivered[q][i] = Sentinel(queues[q])

C20_Exhausted ==
  \A q \in DOMAIN queues :
    /\ IQExhausted(queues[q])
         => /\ thrs[q].state = "done"
            /\ Received(q) = SourceItems(thrs[q].src.id, thrs[q].src.len)
    /\ (queues[q].terminal = "unset" \/ queues[q].items # <<>>)
         => ~IQExhausted(queues[q]) /\ ~ConsumerEnded(q)

C20_NoEnqueueAfterTerminal ==
  \A q \in DOMAIN queues :
    queues[q].terminal # "unset"
      => /\ queues'[q].terminal = queues[q].terminal
         /\ Len(queues'[q].items) <= Len(queues[q].items)

LifecycleThreadAlive == lpc \in {"entry"} \cup LoopPcs \cup TeardownPcs

C24_StartedHasLiveLoop == HasStarted => LifecycleThreadAlive

(***************************************************************************)
(* C23. A heartbeat RPC arriving while the lifecycle loop is waiting on    *)
(* the shutdown condition notifies the condition, so the loop wakes and    *)
(* re-evaluates its exit conditions at once, not at the next poll.         *)
(***************************************************************************)
\* a heartbeat was recorded in this step, the loop blocked in wait()
HeartbeatWhileWaiting ==
  /\ lpc = "waiting"
  /\ last_heartbeat' # last_heartbeat

C23_HeartbeatStep == HeartbeatWhileWaiting => lpc' = "woken"

C23_HeartbeatWakesLoop == [][C23_HeartbeatStep]_vars

(***************************************************************************)
(* C25. With a shutdown callback set, each teardown of a started server    *)
(* (has_started true in shutdown_server) invokes the callback exactly once *)
(* and before the endpoint is stopped and released; the callback is never  *)
(* invoked while no shutdown has been requested or timed out; a teardown   *)
(* attempt on a server that is not started invokes nothing.                *)
(***************************************************************************)
EndpointUp == server # None /\ server \in started_eps

\* inside the teardown: the callback comes while the endpoint is still up
C25_CallbackBeforeStop ==
  /\ lpc \in {"td_callback", "td_stop"} => EndpointUp /\ shutdown_requested
  /\ lpc = "td_clear" => server # None
  /\ cb_calls <= runs

C25_TeardownStep ==
  /\ cb_calls' # cb_calls
       => /\ cb_calls' = cb_calls + 1
          /\ shutdown_callback /\ shutdown_requested
          /\ lpc = "td_callback" /\ lpc' = "td_stop"
          /\ EndpointUp /\ EndpointUp'
  /\ (lpc = "td_callback" /\ lpc' # lpc /\ shutdown_callback)
       => cb_calls' = cb_calls + 1
  /\ (lpc = "td_check" /\ lpc' # lpc)
       => IF HasStarted
            THEN lpc' = "td_callback"
            ELSE /\ lpc' = "done"
                 /\ UNCHANGED <<cb_calls, server, started_eps>>
  /\ ~(started_eps \subseteq started_eps')
       => lpc = "td_stop" /\ lpc' = "td_clear" /\ cb_calls' = cb_calls
  /\ (server # None /\ server' = None) => lpc = "td_clear"

C25_CallbackOncePerTeardown ==
  []C25_CallbackBeforeStop /\ [][C25_TeardownStep]_vars

\* the callback has run in this teardown and the endpoint is not yet stopped
C25_Witness ==
  /\ lpc = "td_stop"
  /\ shutdown_callback /\ cb_calls = 1
  /\ EndpointUp

(***************************************************************************)
(* C22. No failure inside a bound RPC handler (a failed maybe_make, an     *)
(* init_generator type error, a fetch without a generator, a crash of the  *)
(* generator in its producer thread) ends the lifecycle thread or sets     *)
(* shutdown-requested: the server keeps running and answering, and a       *)
(* producer crash is only recorded in the queue's terminal slot.           *)
(***************************************************************************)
\* a call failed in this step
HandlerFails ==
  \/ rpc_error' # rpc_error
  \/ mm_call' # mm_call /\ mm_call'.status = "error"

\* a generator crashed in its producer thread in this step
ProducerCrashes ==
  \E q \in DOMAIN queues :
    queues[q].terminal = "unset" /\ queues'[q].terminal = "exception"

C22_FailureStep ==
  /\ (HandlerFails \/ ProducerCrashes)
       => UNCHANGED <<lifeVars, last_heartbeat, regVars>>
  \* the loop is left only once a shutdown was requested (the clock stands
  \* still here, so no heartbeat expires)
  /\ (lpc \in LoopPcs /\ lpc' \notin LoopPcs) => shutdown_requested
  /\ ProducerCrashes
       => /\ UNCHANGED <<rpc_error, mm_call, hpc, hloc, generator,
                         enqueue_thread, delivered, inits>>
          /\ \A q \in DOMAIN queues : queues'[q].items = queues[q].items

\* while the lifecycle loop runs, its thread exists and the endpoint serves
C22_StillRunning == lpc \in LoopPcs => (thread # None /\ Serving)

C22_FailuresContained == []C22_StillRunning /\ [][C22_FailureStep]_vars

\* after a refused call and a crashed generator the loop is waiting and a
\* fetch has been answered
C22_Witness ==
  /\ rpc_error # "none"
  /\ mm_call.status = "error"
  /\ \E q \in DOMAIN queues :
       queues[q].terminal = "exception" /\ delivered[q] # <<>>
  /\ lpc = "waiting" /\ Serving

(***************************************************************************)
(* C21. Rebatching a stream of tuples of equal-length columns to a         *)
(* batch_size > 0 preserves the data: for every column, the concatenation  *)
(* over the output tuples equals the concatenation over the input tuples;  *)
(* every output tuple but possibly the last has batch_size rows and the    *)
(* last has between 1 and batch_size; with batch_size = 0 the output is    *)
(* the input, item for item.                                               *)
(***************************************************************************)
RECURSIVE ColumnOf(_, _)
\* column c concatenated over a sequence of tuples
ColumnOf(tuples, c) ==
  IF tuples = <<>> THEN <<>>
  ELSE tuples[1][c] \o ColumnOf(Tail(tuples), c)

Rebatching == rb.pc \in {"pass", "run", "done"}

\* nothing is lost, duplicated or reordered on the way
C21_NothingLost ==
  Rebatching =>
    \A c \in 1..rb.ncols :
      ColumnOf(rb.out, c) \o rb.buf[c] \o ColumnOf(rb.in, c)
        = ColumnOf(rb.src, c)

C21_Shape ==
  (Rebatching /\ rb.size > 0) =>
    \A i \in DOMAIN rb.out :
      /\ \A c \in 1..rb.ncols : Len(rb.out[i][c]) = Rows(rb.out[i])
      /\ Rows(rb.out[i]) \in 1..rb.size
      /\ (i < Len(rb.out) \/ rb.pc # "done") => Rows(rb.out[i]) = rb.size

C21_Result ==
  rb.pc = "done" =>
    /\ rb.in = <<>>
    /\ \A c \in 1..rb.ncols : rb.buf[c] = <<>>
    /\ \A c \in 1..rb.ncols : ColumnOf(rb.out, c) = ColumnOf(rb.src, c)
    /\ rb.size = 0 => rb.out = rb.src

C21_RebatchPreserves == C21_NothingLost /\ C21_Shape /\ C21_Result

\* tuples of one and two rows came out as a tuple of two and a last of one
C21_Witness ==
  /\ rb.pc = "done" /\ rb.size = 2 /\ rb.ncols = 2
  /\ Len(rb.src) = 2 /\ Rows(rb.src[1]) = 1 /\ Rows(rb.src[2]) = 2
  /\ Len(rb.out) = 2 /\ Rows(rb.out[1]) = 2 /\ Rows(rb.out[2]) = 1

=============================================================================
